---- MODULE Spec2Model ----
(***************************************************************************)
(* Model of src/swagger/swagger.js: the GET /http-api/swagger.json handler *)
(* that turns the documented "http in" nodes of a Node-RED runtime into an *)
(* OpenAPI 3.0 document.                                                   *)
(*                                                                         *)
(* JavaScript strings whose characters matter (URLs, methods, summaries,   *)
(* tag lists) are sequences of one-character strings; opaque strings are   *)
(* TLA+ strings.  A JavaScript object is a function from its own keys to   *)
(* values; a property that is undefined is a key that is absent, which is  *)
(* also how res.json serialises it.  Objects that the handler reaches by   *)
(* reference and that outlive one request (DEFAULT_TEMPLATE.components,    *)
(* the components and servers of a template in RED.settings) live in       *)
(* `heap` and are named by [ref |-> address].                              *)
(***************************************************************************)
EXTENDS Integers, Sequences, FiniteSets, TLC

VARIABLES
    heap,       \* address -> object: the objects shared between requests
    settings,   \* the name of the RED.settings object in use
    flows,      \* the node registry RED.nodes.eachNode iterates, in order
    res,        \* the response of the request just answered, or NoRes
    p,          \* a path string handed to the path helpers
    np,         \* the path after the helpers have been applied once
    nnp,        \* the path after the helpers have been applied twice
    ep,         \* the endpoint computed from p as a URL template
    pathPc,     \* how far the path helpers have been applied to p
    param,      \* a parameter entry handed to the parameter mapper
    paramDef,   \* the parameter the mapper emitted for it
    paramPc     \* whether the mapper has run on param

vars == <<heap, settings, flows, res, p, np, nnp, ep, pathPc, param, paramDef, paramPc>>

mainVars  == <<heap, settings, flows, res>>
pathVars  == <<p, np, nnp, ep, pathPc>>
paramVars == <<param, paramDef, paramPc>>

(***************************************************************************)
(* Bounds of the model.                                                    *)
(***************************************************************************)
MaxLen == 4      \* longest path string handed to the path helpers
MaxNodes == 3    \* most nodes in the registry

(***************************************************************************)
(* Strings.                                                                *)
(***************************************************************************)
RECURSIVE SeqsUpTo(_, _)
SeqsUpTo(S, n) ==
    IF n = 0 THEN {<<>>}
    ELSE LET shorter == SeqsUpTo(S, n - 1)
         IN  shorter \cup {Append(s, c) : s \in {t \in shorter : Len(t) = n - 1}, c \in S}

\* The characters path strings are drawn from: the separator, the colon,
\* a word character and a character that is neither.
PathChars == {"/", ":", "a", "-"}

\* \w of a JavaScript regular expression, over the characters the model uses.
WordChars == {"a", "b", "i", "d", "p", "_", "0"}

IsWordChar(c) == c \in WordChars

startsWith(s, c) == Len(s) >= 1 /\ s[1] = c
endsWith(s, c) == Len(s) >= 1 /\ s[Len(s)] = c

(***************************************************************************)
(* Path helpers (lines 45-50).                                             *)
(***************************************************************************)
\* (x) => `/{${x.substring(2)}}`
convToSwaggerPath(x) == <<"/", "{">> \o SubSeq(x, 3, Len(x)) \o <<"}">>

\* (url) => (url.startsWith('/') ? url : '/' + url)
ensureLeadingSlash(url) == IF startsWith(url, "/") THEN url ELSE <<"/">> \o url

\* A faulty stripTerminalSlash: without the length test, "/" becomes "".
stripTerminalSlashAlways(url) ==
    IF endsWith(url, "/") THEN SubSeq(url, 1, Len(url) - 1) ELSE url

\* (url) => (url.length > 1 && url.endsWith('/') ? url.slice(0, -1) : url)
stripTerminalSlash(url) ==
    IF Len(url) > 1 /\ endsWith(url, "/") THEN SubSeq(url, 1, Len(url) - 1) ELSE url

\* The end (exclusive) of the longest run of word characters of s from i on.
RECURSIVE WordEnd(_, _)
WordEnd(s, i) ==
    IF i <= Len(s) /\ IsWordChar(s[i]) THEN WordEnd(s, i + 1) ELSE i

\* url.replace(/\/:\w*/g, convToSwaggerPath), scanning s from position i:
\* each leftmost, longest match of "/:" and the word characters after it is
\* replaced, and the scan goes on after the match.
RECURSIVE replaceColons(_, _)
replaceColons(s, i) ==
    IF i > Len(s) THEN <<>>
    ELSE IF s[i] = "/" /\ i + 1 <= Len(s) /\ s[i + 1] = ":"
         THEN LET j == WordEnd(s, i + 2)
              IN  convToSwaggerPath(SubSeq(s, i, j - 1)) \o replaceColons(s, j)
         ELSE <<s[i]>> \o replaceColons(s, i + 1)

\* stripTerminalSlash(ensureLeadingSlash(p))
Normalize(url) == stripTerminalSlash(ensureLeadingSlash(url))

\* const endPoint = stripTerminalSlash(ensureLeadingSlash(url.replace(...)))
endPointOf(url) == Normalize(replaceColons(url, 1))

\* A colon-syntax parameter in a path: a segment that starts with ':'.
HasColonParam(s) == \E i \in 1..(Len(s) - 1) : s[i] = "/" /\ s[i + 1] = ":"

EndsWithTwoSlashes(s) == Len(s) >= 2 /\ s[Len(s)] = "/" /\ s[Len(s) - 1] = "/"

(***************************************************************************)
(* JavaScript values.                                                      *)
(***************************************************************************)
\* null: reading a property of it throws a TypeError.
Null == [js |-> "null"]
IsNull(v) == "js" \in DOMAIN v

\* An exception on its way to the handler's catch block.
Throw == [throw |-> "TypeError"]
IsThrow(v) == "throw" \in DOMAIN v

\* A value a step of the handler completed with.
Ok(v) == [ok |-> v]

\* The object {}.
EmptyObj == [k \in {} |-> TRUE]

Has(o, k) == k \in DOMAIN o

\* The property name "__proto__", as a field name and as a string of characters.
\* An assignment o["__proto__"] = v goes to the accessor inherited from
\* Object.prototype: it sets the prototype of o and adds no property.
ProtoChars == <<"_", "_", "p", "r", "o", "t", "o", "_", "_">>
IsProtoKey(k) == ToString(k) \in {ToString("__proto__"), ToString(ProtoChars)}

\* o after the assignment o[k] = v, and o without property k (delete o[k]).
\* Only own properties are modelled (they are what Object.keys and res.json
\* see), so assigning to "__proto__" leaves o as it is.
Put(o, k, v) ==
    IF IsProtoKey(k) THEN o
    ELSE [x \in DOMAIN o \cup {k} |-> IF x = k THEN v ELSE o[x]]
Delete(o, k) == [x \in DOMAIN o \ {k} |-> o[x]]

\* Truthiness of a property that holds a string, a boolean or an object.
TruthyStr(o, k) == Has(o, k) /\ o[k] # ""
TruthyBool(o, k) == Has(o, k) /\ o[k]
TruthyObj(o, k) == Has(o, k) /\ ~IsNull(o[k])

\* An array held by a property that may hold null instead: Arr(elements).
Arr(elems) == [array |-> elems]

\* A value a property lookup can yield: a string, a function object (which
\* JSON.stringify leaves out of the object that holds it), or an object
\* (v is what JSON.stringify writes for it).
StrVal(s) == [t |-> "string", v |-> s]
FnVal(f) == [t |-> "function", v |-> f]
ObjVal(o) == [t |-> "object", v |-> o]

(***************************************************************************)
(* getStyleFromCollectionFormat (lines 53-62).                             *)
(***************************************************************************)
\* The own properties of the object literal formatMap.
formatMap ==
    [csv |-> "simple", ssv |-> "spaceDelimited", tsv |-> "pipeDelimited",
     pipes |-> "pipeDelimited", multi |-> "form"]

\* The methods formatMap inherits from Object.prototype.
InheritedFunctions ==
    {"constructor", "toString", "toLocaleString", "valueOf", "hasOwnProperty",
     "isPrototypeOf", "propertyIsEnumerable", "__defineGetter__", "__defineSetter__",
     "__lookupGetter__", "__lookupSetter__"}

\* Every property name formatMap inherits: the methods, and the accessor
\* __proto__, which yields Object.prototype.
InheritedKeys == InheritedFunctions \cup {"__proto__"}

\* formatMap[collectionFormat]: an own property, an inherited one, or undefined.
\* return formatMap[collectionFormat] || 'simple';
\* An inherited method and Object.prototype are truthy, so they are returned;
\* Object.prototype has no enumerable property and is written as {}.
getStyleFromCollectionFormat(collectionFormat) ==
    IF collectionFormat \in DOMAIN formatMap THEN StrVal(formatMap[collectionFormat])
    ELSE IF collectionFormat \in InheritedFunctions THEN FnVal(collectionFormat)
    ELSE IF collectionFormat \in InheritedKeys THEN ObjVal(EmptyObj)
    ELSE StrVal("simple")

(***************************************************************************)
(* The parameter mapper (lines 110-138).                                   *)
(***************************************************************************)
\* paramDef.schema = { type: param.type }, with format and items added.
builtSchema(prm) ==
    LET s0 == [type |-> prm.type]
        s1 == IF TruthyStr(prm, "format") THEN Put(s0, "format", prm.format) ELSE s0
    IN  IF prm.type = "array" /\ TruthyObj(prm, "items")
        THEN Put(s1, "items", prm.items) ELSE s1

\* The style and explode properties, set for an array with a collectionFormat.
\* res.json leaves a function-valued style out and writes an object one.
withStyle(def, prm) ==
    IF TruthyStr(prm, "collectionFormat") /\ prm.type = "array"
    THEN LET style == getStyleFromCollectionFormat(prm.collectionFormat)
             d1 == IF style.t = "function" THEN def ELSE Put(def, "style", style.v)
         IN  Put(d1, "explode", prm.collectionFormat = "multi")
    ELSE def

\* A faulty mapper: it rejects an entry without name or in.
paramMapperStrict(prm) ==
    IF IsNull(prm) \/ ~Has(prm, "name") \/ ~Has(prm, "in") THEN Throw
    ELSE LET d2 == [name |-> prm.name, in |-> prm.in,
                    required |-> TruthyBool(prm, "required"),
                    description |-> IF TruthyStr(prm, "description") THEN prm.description ELSE ""]
         IN  IF TruthyObj(prm, "schema") THEN Put(d2, "schema", prm.schema)
             ELSE IF TruthyStr(prm, "type")
                  THEN withStyle(Put(d2, "schema", builtSchema(prm)), prm)
                  ELSE d2

\* (param) => { const paramDef = {...}; ...; return paramDef; } as res.json
\* writes it: name and in are left out when undefined.
paramMapper(prm) ==
    IF IsNull(prm) THEN Throw
    ELSE LET d0 == [required |-> TruthyBool(prm, "required"),
                    description |-> IF TruthyStr(prm, "description") THEN prm.description ELSE ""]
             d1 == IF Has(prm, "name") THEN Put(d0, "name", prm.name) ELSE d0
             d2 == IF Has(prm, "in") THEN Put(d1, "in", prm.in) ELSE d1
         IN  IF TruthyObj(prm, "schema") THEN Put(d2, "schema", prm.schema)
             ELSE IF TruthyStr(prm, "type")
                  THEN withStyle(Put(d2, "schema", builtSchema(prm)), prm)
                  ELSE d2

\* [...parameters, ...additionalParams].map(...): the first exception ends it.
RECURSIVE mapParams(_)
mapParams(prms) ==
    IF prms = <<>> THEN Ok(<<>>)
    ELSE LET d == paramMapper(Head(prms))
         IN  IF IsThrow(d) THEN Throw
             ELSE LET rest == mapParams(Tail(prms))
                  IN  IF IsThrow(rest) THEN Throw ELSE Ok(<<d>> \o rest.ok)

(***************************************************************************)
(* Parameter entries handed to the mapper on its own.                      *)
(***************************************************************************)
\* S, and every object of S with property k set to a value of Vals.
WithOptional(S, k, Vals) == S \cup {Put(o, k, v) : o \in S, v \in Vals}

\* The collectionFormat values the mapper is run on: the empty string, the
\* five of formatMap, an unknown one and two inherited method names.
CollectionFormats ==
    {"", "csv", "ssv", "tsv", "pipes", "multi", "other", "constructor", "isPrototypeOf"}

ParamEntries ==
    LET a == WithOptional({EmptyObj}, "name", {"id"})
        b == WithOptional(a, "in", {"query"})
        c == WithOptional(b, "required", {TRUE, FALSE})
        d == WithOptional(c, "description", {"", "an id"})
        e == WithOptional(d, "schema", {[type |-> "integer"]})
        f == WithOptional(e, "type", {"string", "array"})
        g == WithOptional(f, "format", {"int32"})
        h == WithOptional(g, "items", {[type |-> "string"]})
    IN  WithOptional(h, "collectionFormat", CollectionFormats)


(***************************************************************************)
(* String helpers of the handler.                                          *)
(***************************************************************************)
\* The letters the model's strings use, lower case to upper case.
UpperOf ==
    [a |-> "A", b |-> "B", c |-> "C", d |-> "D", e |-> "E", f |-> "F", g |-> "G",
     h |-> "H", i |-> "I", j |-> "J", k |-> "K", l |-> "L", m |-> "M", n |-> "N",
     o |-> "O", p |-> "P", q |-> "Q", r |-> "R", s |-> "S", t |-> "T", u |-> "U",
     v |-> "V", w |-> "W", x |-> "X", y |-> "Y", z |-> "Z"]

toUpperChar(c) == IF c \in DOMAIN UpperOf THEN UpperOf[c] ELSE c
toLowerChar(c) ==
    IF \E k \in DOMAIN UpperOf : UpperOf[k] = c
    THEN CHOOSE k \in DOMAIN UpperOf : UpperOf[k] = c
    ELSE c

\* String.prototype.toUpperCase and toLowerCase
toUpperCase(str) == [i \in 1..Len(str) |-> toUpperChar(str[i])]
toLowerCase(str) == [i \in 1..Len(str) |-> toLowerChar(str[i])]

\* csvStr.split(','): the pieces of str between commas, from position i on,
\* cur being the piece read so far.
RECURSIVE splitComma(_, _, _)
splitComma(str, i, cur) ==
    IF i > Len(str) THEN <<cur>>
    ELSE IF str[i] = "," THEN <<cur>> \o splitComma(str, i + 1, <<>>)
    ELSE splitComma(str, i + 1, Append(cur, str[i]))

\* String.prototype.trim
RECURSIVE trimStart(_)
trimStart(str) == IF startsWith(str, " ") THEN trimStart(Tail(str)) ELSE str
RECURSIVE trimEnd(_)
trimEnd(str) == IF endsWith(str, " ") THEN trimEnd(SubSeq(str, 1, Len(str) - 1)) ELSE str
trim(str) == trimEnd(trimStart(str))

\* (ary) => ary.map((x) => x.trim())
trimAll(ary) == [i \in 1..Len(ary) |-> trim(ary[i])]

\* (csvStr) => (csvStr ? trimAll(csvStr.split(',')) : [])
csvStrToArray(csvStr) == IF csvStr # <<>> THEN trimAll(splitComma(csvStr, 1, <<>>)) ELSE <<>>

\* server.url.replace(/\/$/, '')
stripOneSlash(url) == IF endsWith(url, "/") THEN SubSeq(url, 1, Len(url) - 1) ELSE url

(***************************************************************************)
(* DEFAULT_TEMPLATE (lines 17-38) and the objects it refers to.            *)
(***************************************************************************)
Ref(a) == [ref |-> a]

\* 'http://localhost:1880/'
LocalUrl ==
    <<"h", "t", "t", "p", ":", "/", "/", "l", "o", "c", "a", "l", "h", "o", "s", "t",
      ":", "1", "8", "8", "0", "/">>

DEFAULT_TEMPLATE ==
    [openapi |-> "3.0.0",
     info |-> [title |-> "My Node-RED API", version |-> "1.0.0", description |-> "A sample API"],
     servers |-> Ref("DEFAULT_TEMPLATE.servers"),
     paths |-> EmptyObj,
     components |-> Ref("DEFAULT_TEMPLATE.components"),
     tags |-> <<>>]

\* The four component categories cleanupOpenAPISpec looks at.
Categories == {"schemas", "responses", "parameters", "securitySchemes"}

\* A components object maps a category to the set of names defined in it.
DefaultComponents == [k \in Categories |-> {}]

DefaultServers == <<[url |-> LocalUrl, description |-> "Local server"]>>

(***************************************************************************)
(* RED.settings: the settings objects a runtime may be started with.       *)
(***************************************************************************)
ApiRoot == <<"/", "a", "p", "i">>

GlobalParam == [name |-> "X-Trace", in |-> "header", type |-> "string"]

SettingsObjects ==
    [plain |-> EmptyObj,
     rooted |-> [httpNodeRoot |-> ApiRoot, openapi |-> [parameters |-> Arr(<<GlobalParam>>)]],
     extra |-> [httpNodeRoot |-> <<"/">>,
                openapi |-> [template |->
                    [info |-> [title |-> "Pets", version |-> "2.0.0"],
                     components |-> Ref("extra.components"),
                     tags |-> <<"pets">>]]],
     pruned |-> [httpNodeRoot |-> ApiRoot,
                 openapi |-> [template |->
                    [components |-> Ref("pruned.components"),
                     servers |-> Ref("pruned.servers"),
                     tags |-> <<>>]]],
     broken |-> [openapi |-> Null]]

SettingsNames == DOMAIN SettingsObjects

\* The objects that outlive a request, as they are before the first request.
InitHeap ==
    [a \in {"DEFAULT_TEMPLATE.components", "DEFAULT_TEMPLATE.servers",
            "extra.components", "pruned.components", "pruned.servers"} |->
        CASE a = "DEFAULT_TEMPLATE.components" -> DefaultComponents
          [] a = "DEFAULT_TEMPLATE.servers" -> DefaultServers
          [] a = "extra.components" -> [schemas |-> {}, examples |-> {"Pet"}]
          [] a = "pruned.components" -> [schemas |-> {}, securitySchemes |-> {}]
          [] a = "pruned.servers" ->
                <<[url |-> <<"h", "/">>, description |-> "one"],
                  [url |-> <<"h">>, description |-> "two"]>>]

SharedAddrs == DOMAIN InitHeap

\* The address of the array resp.servers.map(...) creates during a request.
LocalServers == "resp.servers"


(***************************************************************************)
(* The swagger-doc configuration nodes and SwaggerDoc (lines 208-217).     *)
(***************************************************************************)
ArrayMulti == [name |-> "ids", in |-> "query", type |-> "array",
               items |-> [type |-> "string"], collectionFormat |-> "multi"]

\* The configuration objects n the runtime hands to SwaggerDoc, by node id.
\* n.parameters is Arr(entries) or null.
DocConfigs ==
    [full |-> [name |-> <<"D", "1">>,
               summary |-> <<"L", "i", "s", "t">>,
               description |-> "Lists things",
               tags |-> <<"a", ",", " ", "b">>,
               deprecated |-> TRUE,
               parameters |-> Arr(<<[name |-> "a", in |-> "path", required |-> TRUE,
                                     schema |-> [type |-> "integer"], type |-> "string"]>>),
               responses |-> ("200" :> [description |-> "fine", schema |-> [type |-> "object"]]),
               requestBody |-> [content |-> ("application/json" :> [schema |-> [type |-> "object"]])]],
     sparse |-> [name |-> <<"D", "2">>,
                 parameters |-> Arr(<<EmptyObj, ArrayMulti>>),
                 responses |-> ("404" :> EmptyObj),
                 requestBody |-> [content |-> EmptyObj]],
     bare |-> [summary |-> <<>>, parameters |-> Null, responses |-> Null,
               requestBody |-> [content |-> Null]],
     nullParam |-> [parameters |-> Arr(<<ArrayMulti, Null>>)]]

\* function SwaggerDoc(n): the node RED.nodes.getNode returns for n.
\* parameters, responses, requestBody and deprecated are n's when truthy
\* (n.x || default); summary, description and tags are copied as they are.
\* RED.nodes.createNode copies the name.
SwaggerDoc(n) ==
    LET d0 == [parameters |-> IF TruthyObj(n, "parameters") THEN n.parameters.array ELSE <<>>,
               responses |-> IF TruthyObj(n, "responses") THEN n.responses ELSE EmptyObj,
               requestBody |-> IF TruthyObj(n, "requestBody") THEN n.requestBody ELSE Null,
               deprecated |-> TruthyBool(n, "deprecated")]
        d1 == IF Has(n, "summary") THEN Put(d0, "summary", n.summary) ELSE d0
        d2 == IF Has(n, "description") THEN Put(d1, "description", n.description) ELSE d1
        d3 == IF Has(n, "tags") THEN Put(d2, "tags", n.tags) ELSE d2
    IN  IF Has(n, "name") THEN Put(d3, "name", n.name) ELSE d3

\* RED.nodes.getNode(swaggerDoc): the node with that id, or null.
getNode(id) == IF id \in DOMAIN DocConfigs THEN SwaggerDoc(DocConfigs[id]) ELSE Null

(***************************************************************************)
(* The nodes a flow may hold (what RED.nodes.eachNode yields).             *)
(***************************************************************************)
UrlA == <<"/", "a", "/", ":", "i", "d">>

NodePool ==
    {[name |-> <<"R", "1">>, type |-> "http in", method |-> <<"g", "e", "t">>,
      swaggerDoc |-> "full", url |-> UrlA],
     [name |-> <<"R", "2">>, type |-> "http in", method |-> <<"G", "E", "T">>,
      swaggerDoc |-> "sparse", url |-> UrlA \o <<"/">>],
     [name |-> <<>>, type |-> "http in", method |-> <<"p", "o", "s", "t">>,
      swaggerDoc |-> "sparse", url |-> UrlA],
     [type |-> "http in", method |-> <<"g", "e", "t">>,
      swaggerDoc |-> "bare", url |-> <<":", "i", "d">>],
     [type |-> "http in", method |-> <<"g", "e", "t">>,
      swaggerDoc |-> "nullParam", url |-> <<"b">>],
     [type |-> "http in", method |-> <<"g", "e", "t">>,
      swaggerDoc |-> "gone", url |-> <<"/", "b">>]}


(***************************************************************************)
(* The handler of GET /http-api/swagger.json (lines 64-185).               *)
(***************************************************************************)
\* const { httpNodeRoot, openapi: { template = {}, parameters:
\* additionalParams = [] } = {} } = RED.settings;  (line 66)
\* An undefined httpNodeRoot is as falsy as the empty string.  The defaults
\* stand in for undefined only: a null template or parameters stays null.
\* additionalParams is Arr(entries) or null.
destructureSettings(st) ==
    IF Has(st, "openapi") /\ IsNull(st.openapi) THEN Throw
    ELSE LET oa == IF Has(st, "openapi") THEN st.openapi ELSE EmptyObj
         IN  [httpNodeRoot |-> IF Has(st, "httpNodeRoot") THEN st.httpNodeRoot ELSE <<>>,
              template |-> IF Has(oa, "template") THEN oa.template ELSE EmptyObj,
              additionalParams |-> IF Has(oa, "parameters") THEN oa.parameters ELSE Arr(<<>>)]

\* const resp = { ...DEFAULT_TEMPLATE, ...template }; resp.paths = {};
\* A shallow merge: resp shares the nested objects of its sources.
\* Spreading null adds nothing.
mergeTemplate(template) ==
    LET given == IF IsNull(template) THEN EmptyObj ELSE template
        merged == [k \in DOMAIN DEFAULT_TEMPLATE \cup DOMAIN given |->
                      IF k \in DOMAIN given THEN given[k] ELSE DEFAULT_TEMPLATE[k]]
    IN  Put(merged, "paths", EmptyObj)

\* resp.servers.map((server) => ({...server, url: ... + httpNodeRoot}))
mappedServers(servers, httpNodeRoot) ==
    [i \in 1..Len(servers) |->
        Put(servers[i], "url", stripOneSlash(servers[i].url) \o httpNodeRoot)]

\* A faulty server update: it writes the urls into the array resp.servers
\* refers to, which is the template's.
updateServersInPlace(h, resp, httpNodeRoot) ==
    IF httpNodeRoot # <<>> /\ httpNodeRoot # <<"/">>
    THEN [heap |-> Put(h, resp.servers.ref, mappedServers(h[resp.servers.ref], httpNodeRoot)),
          resp |-> resp]
    ELSE [heap |-> h, resp |-> resp]

\* if (httpNodeRoot && httpNodeRoot !== '/') resp.servers = resp.servers.map(...)
\* map builds a new array of new objects; resp.servers is made to refer to it.
updateServers(h, resp, httpNodeRoot) ==
    IF httpNodeRoot # <<>> /\ httpNodeRoot # <<"/">>
    THEN [heap |-> Put(h, LocalServers, mappedServers(h[resp.servers.ref], httpNodeRoot)),
          resp |-> Put(resp, "servers", Ref(LocalServers))]
    ELSE [heap |-> h, resp |-> resp]

\* A summary that falls back on the name of the documentation node.
summaryOfDocName(node, doc, endPoint) ==
    IF Has(doc, "summary") THEN Ok(doc.summary)
    ELSE IF Has(doc, "name") /\ doc.name # <<>> THEN Ok(doc.name)
    ELSE IF ~Has(node, "method") THEN Throw
    ELSE Ok(toUpperCase(node.method) \o <<" ">> \o endPoint)

\* summary = name || `${method.toUpperCase()} ${endPoint}`  (line 94): the
\* default of the destructuring, used when swaggerDocNode.summary is undefined.
\* name is the name of the "http in" node (line 80).
summaryOf(node, doc, endPoint) ==
    IF Has(doc, "summary") THEN Ok(doc.summary)
    ELSE IF Has(node, "name") /\ node.name # <<>> THEN Ok(node.name)
    ELSE IF ~Has(node, "method") THEN Throw
    ELSE Ok(toUpperCase(node.method) \o <<" ">> \o endPoint)

\* One entry of operation.responses (lines 150-162).
responseOf(responseDetails) ==
    IF IsNull(responseDetails) THEN Throw
    ELSE LET r0 == [description |-> IF TruthyStr(responseDetails, "description")
                                    THEN responseDetails.description ELSE "No description"]
         IN  IF TruthyObj(responseDetails, "schema")
             THEN Put(r0, "content",
                      "application/json" :> [schema |-> responseDetails.schema])
             ELSE r0

\* Object.keys(responses).forEach(...) and the fallback (lines 148-171).
\* operation.responses[status] = {...} adds no property for the status
\* "__proto__"; the fallback looks at the properties operation.responses has.
responsesOf(responses) ==
    LET assigned == {st \in DOMAIN responses : ~IsProtoKey(st)}
    IN  IF \E st \in DOMAIN responses : IsNull(responses[st]) THEN Throw
        ELSE IF assigned = {} THEN Ok("200" :> [description |-> "Successful response"])
        ELSE Ok([st \in assigned |-> responseOf(responses[st])])

\* The operation object of one documented node (lines 93-171), or Throw.
\* Spreading a null additionalParams throws; a requestBody whose content is
\* missing, null or without keys is left out (line 143).
buildOperation(node, doc, endPoint, additionalParams) ==
    LET summary == summaryOf(node, doc, endPoint)
        parameters == IF IsNull(additionalParams) THEN Throw
                      ELSE mapParams((IF Has(doc, "parameters") THEN doc.parameters ELSE <<>>)
                                     \o additionalParams.array)
        requestBody == IF Has(doc, "requestBody") THEN doc.requestBody ELSE Null
        responses == responsesOf(IF Has(doc, "responses") THEN doc.responses ELSE EmptyObj)
    IN  IF IsThrow(summary) \/ IsThrow(parameters) \/ IsThrow(responses) THEN Throw
        ELSE LET op == [summary |-> summary.ok,
                        description |-> IF Has(doc, "description") THEN doc.description ELSE "",
                        tags |-> csvStrToArray(IF Has(doc, "tags") THEN doc.tags ELSE <<>>),
                        deprecated |-> IF Has(doc, "deprecated") THEN doc.deprecated ELSE FALSE,
                        parameters |-> parameters.ok,
                        responses |-> responses.ok]
             IN  IF ~IsNull(requestBody) /\ TruthyObj(requestBody, "content")
                    /\ DOMAIN requestBody.content # {}
                 THEN Put(op, "requestBody", requestBody)
                 ELSE op

\* Whether the callback of eachNode documents the node (lines 82-85).
IsDocumented(node) ==
    /\ node.type = "http in"
    /\ TruthyStr(node, "swaggerDoc")
    /\ ~IsNull(getNode(node.swaggerDoc))

\* A faulty callback: an operation already at the path and method is kept.
processNodeKeepFirst(paths, node, additionalParams) ==
    IF ~IsDocumented(node) THEN Ok(paths)
    ELSE IF ~Has(node, "url") THEN Throw
    ELSE LET endPoint == endPointOf(node.url)
             paths1 == IF endPoint \in DOMAIN paths THEN paths ELSE Put(paths, endPoint, EmptyObj)
             operation == buildOperation(node, getNode(node.swaggerDoc), endPoint, additionalParams)
         IN  IF IsThrow(operation) \/ ~Has(node, "method") THEN Throw
             ELSE IF toLowerCase(node.method) \in DOMAIN paths1[endPoint] THEN Ok(paths1)
             ELSE Ok(Put(paths1, endPoint,
                         Put(paths1[endPoint], toLowerCase(node.method), operation)))

\* The callback of RED.nodes.eachNode (lines 79-176): Ok(resp.paths after the
\* node), or Throw.
processNode(paths, node, additionalParams) ==
    IF ~IsDocumented(node) THEN Ok(paths)
    ELSE IF ~Has(node, "url") THEN Throw
    ELSE LET endPoint == endPointOf(node.url)
             paths1 == IF endPoint \in DOMAIN paths THEN paths ELSE Put(paths, endPoint, EmptyObj)
             operation == buildOperation(node, getNode(node.swaggerDoc), endPoint, additionalParams)
         IN  IF IsThrow(operation) \/ ~Has(node, "method") THEN Throw
             ELSE Ok(Put(paths1, endPoint,
                         Put(paths1[endPoint], toLowerCase(node.method), operation)))

\* A faulty iteration: a node whose callback throws is left out.
RECURSIVE eachNodeSkipFailed(_, _, _)
eachNodeSkipFailed(paths, nodes, additionalParams) ==
    IF nodes = <<>> THEN Ok(paths)
    ELSE LET next == processNode(paths, Head(nodes), additionalParams)
         IN  eachNodeSkipFailed(IF IsThrow(next) THEN paths ELSE next.ok,
                                Tail(nodes), additionalParams)

\* RED.nodes.eachNode(callback): the nodes in registry order; an exception in
\* the callback ends the iteration and reaches the handler's catch.
RECURSIVE eachNode(_, _, _)
eachNode(paths, nodes, additionalParams) ==
    IF nodes = <<>> THEN Ok(paths)
    ELSE LET next == processNode(paths, Head(nodes), additionalParams)
         IN  IF IsThrow(next) THEN Throw
             ELSE eachNode(next.ok, Tail(nodes), additionalParams)


\* A cleanup that deletes components once none of the four categories is left.
cleanupWhenCategoriesGone(h, spec) ==
    LET comps == IF TruthyObj(spec, "components") THEN h[spec.components.ref] ELSE EmptyObj
        kept == [k \in {c \in DOMAIN comps : ~(c \in Categories /\ comps[c] = {})} |-> comps[k]]
        h1 == IF TruthyObj(spec, "components") THEN Put(h, spec.components.ref, kept) ELSE h
        s1 == IF TruthyObj(spec, "components") /\ DOMAIN kept \cap Categories = {}
              THEN Delete(spec, "components") ELSE spec
        s2 == IF Has(s1, "tags") /\ s1.tags = <<>> THEN Delete(s1, "tags") ELSE s1
    IN  [heap |-> h1, spec |-> s2]

\* function cleanupOpenAPISpec(spec) (lines 187-206).  delete
\* spec.components[key] acts on the object spec.components refers to;
\* delete spec.components and delete spec.tags act on spec itself.
cleanupOpenAPISpec(h, spec) ==
    LET comps == IF TruthyObj(spec, "components") THEN h[spec.components.ref] ELSE EmptyObj
        kept == [k \in {c \in DOMAIN comps : ~(c \in Categories /\ comps[c] = {})} |-> comps[k]]
        h1 == IF TruthyObj(spec, "components") THEN Put(h, spec.components.ref, kept) ELSE h
        s1 == IF TruthyObj(spec, "components") /\ DOMAIN kept = {}
              THEN Delete(spec, "components") ELSE spec
        s2 == IF Has(s1, "tags") /\ s1.tags = <<>> THEN Delete(s1, "tags") ELSE s1
    IN  [heap |-> h1, spec |-> s2]

\* res.json(resp): the document as serialised, with the objects resp refers
\* to written in place.
toJson(h, resp) ==
    [k \in DOMAIN resp |->
        IF k \in {"components", "servers"} /\ ~IsNull(resp[k]) THEN h[resp[k].ref]
        ELSE resp[k]]

ErrorBody == [error |-> "Internal server error"]

\* What outlives the request: the shared objects.
Shared(h) == [a \in SharedAddrs |-> h[a]]

\* The handler: the response it sends and the shared objects after it.
handler(h, st, nodes) ==
    LET cfg == destructureSettings(st)
    IN  IF IsThrow(cfg) THEN [res |-> [status |-> 500, body |-> ErrorBody], heap |-> h]
        ELSE LET withServers == updateServers(h, mergeTemplate(cfg.template), cfg.httpNodeRoot)
                 paths == eachNode(EmptyObj, nodes, cfg.additionalParams)
             IN  IF IsThrow(paths)
                 THEN [res |-> [status |-> 500, body |-> ErrorBody],
                       heap |-> Shared(withServers.heap)]
                 ELSE LET cleaned == cleanupOpenAPISpec(withServers.heap,
                                         Put(withServers.resp, "paths", paths.ok))
                      IN  [res |-> [status |-> 200,
                                    body |-> toJson(cleaned.heap, cleaned.spec)],
                           heap |-> Shared(cleaned.heap)]

(***************************************************************************)
(* The runtime: flows are deployed, settings are loaded, requests answered.*)
(***************************************************************************)
NoRes == [status |-> 0]

Init ==
    /\ heap = InitHeap
    /\ settings = "plain"
    /\ flows = <<>>
    /\ res = NoRes
    /\ p = <<>> /\ np = <<>> /\ nnp = <<>> /\ ep = <<>> /\ pathPc = "idle"
    /\ param = EmptyObj /\ paramDef = EmptyObj /\ paramPc = "idle"

\* A node is added to the registry.
DeployNode(n) ==
    /\ Len(flows) < MaxNodes
    /\ flows' = Append(flows, n)
    /\ res' = NoRes
    /\ UNCHANGED <<heap, settings, pathVars, paramVars>>

\* The flows are removed.
ClearFlows ==
    /\ flows # <<>>
    /\ flows' = <<>>
    /\ res' = NoRes
    /\ UNCHANGED <<heap, settings, pathVars, paramVars>>

\* The runtime takes another settings object into use.
LoadSettings(name) ==
    /\ settings # name
    /\ settings' = name
    /\ res' = NoRes
    /\ UNCHANGED <<heap, flows, pathVars, paramVars>>

\* GET /http-api/swagger.json is answered.
GetSwaggerJson ==
    LET out == handler(heap, SettingsObjects[settings], flows)
    IN  /\ res' = out.res
        /\ heap' = out.heap
        /\ UNCHANGED <<settings, flows, pathVars, paramVars>>

Next ==
    \/ \E n \in NodePool : DeployNode(n)
    \/ ClearFlows
    \/ \E name \in SettingsNames : LoadSettings(name)
    \/ GetSwaggerJson

Spec == Init /\ [][Next]_vars


(***************************************************************************)
(* The path helpers on their own: every string of up to MaxLen characters  *)
(* is converted as a URL template, and normalised once and twice.          *)
(***************************************************************************)
InitPath ==
    /\ heap = InitHeap /\ settings = "plain" /\ flows = <<>> /\ res = NoRes
    /\ p \in SeqsUpTo(PathChars, MaxLen)
    /\ np = <<>> /\ nnp = <<>> /\ ep = <<>> /\ pathPc = "in"
    /\ param = EmptyObj /\ paramDef = EmptyObj /\ paramPc = "idle"

ConvertUrl ==
    /\ pathPc = "in"
    /\ ep' = endPointOf(p)
    /\ pathPc' = "converted"
    /\ UNCHANGED <<mainVars, p, np, nnp, paramVars>>

NormalizeOnce ==
    /\ pathPc = "converted"
    /\ np' = Normalize(p)
    /\ pathPc' = "once"
    /\ UNCHANGED <<mainVars, p, nnp, ep, paramVars>>

NormalizeTwice ==
    /\ pathPc = "once"
    /\ nnp' = Normalize(np)
    /\ pathPc' = "twice"
    /\ UNCHANGED <<mainVars, p, np, ep, paramVars>>

NextPath == ConvertUrl \/ NormalizeOnce \/ NormalizeTwice

SpecPath == InitPath /\ [][NextPath]_vars

(***************************************************************************)
(* The parameter mapper on its own: every parameter entry is mapped.       *)
(***************************************************************************)
InitParam ==
    /\ heap = InitHeap /\ settings = "plain" /\ flows = <<>> /\ res = NoRes
    /\ p = <<>> /\ np = <<>> /\ nnp = <<>> /\ ep = <<>> /\ pathPc = "idle"
    /\ param \in ParamEntries \cup {Null}
    /\ paramDef = EmptyObj /\ paramPc = "in"

MapParam ==
    /\ paramPc = "in"
    /\ paramDef' = paramMapper(param)
    /\ paramPc' = "mapped"
    /\ UNCHANGED <<mainVars, pathVars, param>>

NextParam == MapParam

SpecParam == InitParam /\ [][NextParam]_vars


(***************************************************************************)
(* What the properties speak about.                                        *)
(***************************************************************************)
\* The registry positions of the nodes the handler documents.
DocIdx == {i \in 1..Len(flows) : IsDocumented(flows[i])}

\* The settings in use make the handler fail before it looks at a node.
SettingsFail ==
    Has(SettingsObjects[settings], "openapi") /\ IsNull(SettingsObjects[settings].openapi)

\* The global parameters of the settings in use.
GlobalParams ==
    LET st == SettingsObjects[settings]
    IN  IF Has(st, "openapi") /\ ~IsNull(st.openapi) /\ Has(st.openapi, "parameters")
        THEN st.openapi.parameters ELSE Arr(<<>>)

\* A documented node the handler cannot process: it has no url or no
\* method, or its documentation holds null where an entry should be.
NodeFails(node) ==
    LET n == getNode(node.swaggerDoc)
    IN  \/ ~Has(node, "url")
        \/ ~Has(node, "method")
        \/ \E j \in 1..Len(n.parameters) : IsNull(n.parameters[j])
        \/ \E st \in DOMAIN n.responses : IsNull(n.responses[st])

InputFails == SettingsFail \/ \E i \in DocIdx : NodeFails(flows[i])

\* The path and method key node i is emitted under.
PathAt(i) == endPointOf(flows[i].url)
MethodAt(i) == toLowerCase(flows[i].method)

\* The last documented node of the registry emitted under path e, method m.
LastFor(e, m) ==
    CHOOSE i \in DocIdx :
        /\ PathAt(i) = e /\ MethodAt(i) = m
        /\ \A j \in DocIdx : (PathAt(j) = e /\ MethodAt(j) = m) => j <= i

Answered == res.status # 0
Succeeded == res.status = 200

\* The style the documentation promises for a collectionFormat.
ClaimedStyle(collectionFormat) ==
    CASE collectionFormat = "csv" -> "simple"
      [] collectionFormat = "ssv" -> "spaceDelimited"
      [] collectionFormat = "tsv" -> "pipeDelimited"
      [] collectionFormat = "pipes" -> "pipeDelimited"
      [] collectionFormat = "multi" -> "form"
      [] OTHER -> "simple"

(***************************************************************************)
(* C1.  Every key of the output paths mapping is free of colon-syntax      *)
(* parameters: no segment that starts with ':' survives conversion and     *)
(* normalisation, whether or not the URL template starts with '/'.         *)
(***************************************************************************)
C1_NoColonInPathKeys ==
    Succeeded => \A e \in DOMAIN res.body.paths : ~HasColonParam(e)

(***************************************************************************)
(* C2.  When several documented nodes share a converted path and a         *)
(* lower-cased method, the operation emitted there is exactly the one      *)
(* built from the node processed last; nothing of an earlier one is merged *)
(* in, no error is raised, and every other path and method of a documented *)
(* node is present as well.                                                *)
(***************************************************************************)
C2_LastRouteWins ==
    (Answered /\ ~InputFails) =>
        /\ Succeeded
        /\ \A i \in DocIdx :
              /\ PathAt(i) \in DOMAIN res.body.paths
              /\ MethodAt(i) \in DOMAIN res.body.paths[PathAt(i)]
        /\ \A e \in DOMAIN res.body.paths : \A m \in DOMAIN res.body.paths[e] :
              /\ \E i \in DocIdx : PathAt(i) = e /\ MethodAt(i) = m
              /\ LET last == flows[LastFor(e, m)]
                 IN  res.body.paths[e][m] =
                        buildOperation(last, getNode(last.swaggerDoc), e, GlobalParams)

\* A request answered for a registry in which a later node replaced an
\* earlier one at the same path and method, and a third node added another
\* method to that path.
C2_Witness ==
    /\ Succeeded
    /\ \E i, j, k \in DocIdx :
          /\ i < j /\ PathAt(i) = PathAt(j) /\ MethodAt(i) = MethodAt(j)
          /\ PathAt(k) = PathAt(i) /\ MethodAt(k) # MethodAt(i)
          /\ flows[i].swaggerDoc # flows[j].swaggerDoc
          /\ res.body.paths[PathAt(i)][MethodAt(i)].summary = flows[j].name

(***************************************************************************)
(* C3.  The document is a function of the registry and the settings alone: *)
(* whatever requests were answered before, the response equals the one the *)
(* same registry and settings give on a fresh start.  In particular each   *)
(* server url carries the configured prefix once, appended to the          *)
(* template's url less one trailing '/'.                                   *)
(***************************************************************************)
C3_PureFunction ==
    Answered =>
        /\ res = handler(InitHeap, SettingsObjects[settings], flows).res
        /\ (Succeeded /\ settings \in {"rooted", "pruned"}) =>
              LET template == SettingsObjects[settings].openapi
                  given == IF Has(template, "template") /\ Has(template.template, "servers")
                           THEN InitHeap[template.template.servers.ref]
                           ELSE DefaultServers
              IN  /\ Len(res.body.servers) = Len(given)
                  /\ \A i \in 1..Len(given) :
                        res.body.servers[i].url = stripOneSlash(given[i].url) \o ApiRoot

\* A request with a base-path prefix answered after an earlier request
\* pruned the shared objects.
C3_Witness ==
    /\ Succeeded
    /\ settings = "rooted"
    /\ heap # InitHeap
    /\ res.body.servers[1].url = stripOneSlash(LocalUrl) \o ApiRoot


(***************************************************************************)
(* C4.  A request ends in one of two ways: status 200 with the document    *)
(* that holds every documented node's path and method, or, when anything   *)
(* throws, status 500 with exactly {"error": "Internal server error"}.  A  *)
(* document that lacks documented routes is never sent.                    *)
(***************************************************************************)
C4_AllOrNothing ==
    Answered =>
        \/ /\ res.status = 200
           /\ ~InputFails
           /\ \A i \in DocIdx :
                 /\ PathAt(i) \in DOMAIN res.body.paths
                 /\ MethodAt(i) \in DOMAIN res.body.paths[PathAt(i)]
        \/ /\ res.status = 500
           /\ InputFails
           /\ res = [status |-> 500, body |-> [error |-> "Internal server error"]]

\* A failed request whose registry holds a node that was processed before
\* the failing one: the work done for it is not sent.
C4_Witness ==
    /\ res.status = 500
    /\ \E i, j \in DocIdx : i < j /\ ~NodeFails(flows[i]) /\ NodeFails(flows[j])

(***************************************************************************)
(* C5.  Parameter and response entries with expected fields missing, down  *)
(* to entries with no fields at all, never make the request fail: each is  *)
(* emitted with required false and description '' (parameters) or          *)
(* description 'No description' (responses).                               *)
(***************************************************************************)
C5_MissingFieldsDefaulted ==
    (Answered /\ ~InputFails) =>
        /\ Succeeded
        /\ \A e \in DOMAIN res.body.paths : \A m \in DOMAIN res.body.paths[e] :
              LET n == getNode(flows[LastFor(e, m)].swaggerDoc)
                  prms == n.parameters \o GlobalParams.array
                  rsps == n.responses
                  op == res.body.paths[e][m]
              IN  /\ Len(op.parameters) = Len(prms)
                  /\ \A j \in 1..Len(prms) :
                        /\ ~Has(prms[j], "required") => op.parameters[j].required = FALSE
                        /\ ~Has(prms[j], "description") => op.parameters[j].description = ""
                        /\ (~Has(prms[j], "schema") /\ ~Has(prms[j], "type"))
                              => ~Has(op.parameters[j], "schema")
                  /\ \A st \in DOMAIN rsps :
                        /\ st \in DOMAIN op.responses
                        /\ ~Has(rsps[st], "description")
                              => op.responses[st].description = "No description"

\* A document sent for a node whose documentation has a parameter entry and
\* a response entry without any field.
C5_Witness ==
    /\ Succeeded
    /\ \E i \in DocIdx :
          /\ flows[i].swaggerDoc = "sparse"
          /\ DocConfigs.sparse.parameters.array[1] = EmptyObj
          /\ DocConfigs.sparse.responses["404"] = EmptyObj
          /\ res.body.paths[PathAt(i)][MethodAt(i)].parameters[1]
                = [required |-> FALSE, description |-> ""]
          /\ res.body.paths[PathAt(i)][MethodAt(i)].responses["404"]
                = [description |-> "No description"]

(***************************************************************************)
(* C6.  The summary of an operation is the documentation node's summary if *)
(* defined, else the documentation node's name, else the upper-cased       *)
(* method, a space and the converted path.                                 *)
(***************************************************************************)
C6_SummaryFromDocName ==
    Succeeded =>
        \A e \in DOMAIN res.body.paths : \A m \in DOMAIN res.body.paths[e] :
            LET node == flows[LastFor(e, m)]
                doc == getNode(node.swaggerDoc)
            IN  res.body.paths[e][m].summary =
                    IF Has(doc, "summary") THEN doc.summary
                    ELSE IF Has(doc, "name") THEN doc.name
                    ELSE toUpperCase(node.method) \o <<" ">> \o e

(***************************************************************************)
(* C6, amended.  The summary of an operation is the documentation node's   *)
(* summary if defined (an empty one included), else the name of the        *)
(* "http in" node if it has a non-empty one, else the upper-cased method,  *)
(* a space and the converted path.                                         *)
(***************************************************************************)
C6_SummaryFromRouteName ==
    Succeeded =>
        \A e \in DOMAIN res.body.paths : \A m \in DOMAIN res.body.paths[e] :
            LET node == flows[LastFor(e, m)]
                doc == getNode(node.swaggerDoc)
            IN  res.body.paths[e][m].summary =
                    IF Has(doc, "summary") THEN doc.summary
                    ELSE IF Has(node, "name") /\ node.name # <<>> THEN node.name
                    ELSE toUpperCase(node.method) \o <<" ">> \o e

\* A document with all three cases: a summary taken from the documentation,
\* one taken from the name of the "http in" node although the documentation
\* node has another name, and one made of method and path.
C6_Witness ==
    /\ Succeeded
    /\ \E e \in DOMAIN res.body.paths :
          /\ {<<"g", "e", "t">>, <<"p", "o", "s", "t">>} \subseteq DOMAIN res.body.paths[e]
          /\ res.body.paths[e][<<"g", "e", "t">>].summary = <<"R", "2">>
          /\ getNode(flows[LastFor(e, <<"g", "e", "t">>)].swaggerDoc).name = <<"D", "2">>
          /\ res.body.paths[e][<<"p", "o", "s", "t">>].summary
                = <<"P", "O", "S", "T", " ">> \o e
    /\ \E e \in DOMAIN res.body.paths :
          /\ <<"g", "e", "t">> \in DOMAIN res.body.paths[e]
          /\ res.body.paths[e][<<"g", "e", "t">>].summary = <<>>

(***************************************************************************)
(* C7.  A parameter without a schema whose type is "array" and that has a  *)
(* collectionFormat is emitted with style csv->simple, ssv->spaceDelimited,*)
(* tsv->pipeDelimited, pipes->pipeDelimited, multi->form, anything else -> *)
(* simple, with explode true exactly for "multi", and with a schema built  *)
(* from type, format and items.  A parameter with a schema is emitted with *)
(* that schema and nothing taken from type, format, items or               *)
(* collectionFormat.                                                       *)
(***************************************************************************)
C7_StyleFromCollectionFormat ==
    (paramPc = "mapped" /\ ~IsNull(param)) =>
        /\ (/\ ~Has(param, "schema")
            /\ Has(param, "type") /\ param.type = "array"
            /\ TruthyStr(param, "collectionFormat"))
              => /\ Has(paramDef, "style")
                 /\ paramDef.style = ClaimedStyle(param.collectionFormat)
                 /\ Has(paramDef, "explode")
                 /\ paramDef.explode = (param.collectionFormat = "multi")
                 /\ Has(paramDef, "schema")
                 /\ paramDef.schema.type = "array"
                 /\ Has(paramDef.schema, "format") = Has(param, "format")
                 /\ Has(param, "format") => paramDef.schema.format = param.format
                 /\ Has(paramDef.schema, "items") = Has(param, "items")
                 /\ Has(param, "items") => paramDef.schema.items = param.items
        /\ Has(param, "schema")
              => /\ paramDef.schema = param.schema
                 /\ DOMAIN paramDef \subseteq {"name", "in", "required", "description", "schema"}

(***************************************************************************)
(* C8.  After the cleanup, for any template and any registry: none of the  *)
(* categories schemas, responses, parameters, securitySchemes is present   *)
(* and empty; components is absent whenever all four are absent; tags is   *)
(* absent whenever it is empty.                                            *)
(***************************************************************************)
C8_ComponentsGoneWithCategories ==
    Succeeded =>
        /\ Has(res.body, "components") =>
              \A c \in Categories \cap DOMAIN res.body.components :
                  res.body.components[c] # {}
        /\ Has(res.body, "components") => DOMAIN res.body.components \cap Categories # {}
        /\ Has(res.body, "tags") => res.body.tags # <<>>

(***************************************************************************)
(* C8, amended.  After the cleanup: none of the four categories is present *)
(* and empty; components is absent whenever the components object has no   *)
(* key left after that pruning, and is kept, with its remaining keys, when *)
(* it has one (another key such as examples counts, also when all four     *)
(* categories are absent); tags is absent whenever it is empty.            *)
(***************************************************************************)
C8_ComponentsGoneWhenEmpty ==
    Succeeded =>
        LET template == destructureSettings(SettingsObjects[settings]).template
            given == IF Has(template, "components") THEN InitHeap[template.components.ref]
                     ELSE DefaultComponents
            left == {k \in DOMAIN given : ~(k \in Categories /\ given[k] = {})}
        IN  /\ Has(res.body, "components") =>
                  \A c \in Categories \cap DOMAIN res.body.components :
                      res.body.components[c] # {}
            /\ Has(res.body, "components") = (left # {})
            /\ Has(res.body, "components") => DOMAIN res.body.components = left
            /\ Has(res.body, "tags") => res.body.tags # <<>>

\* A document without documented routes from a template whose components
\* hold an empty schemas category and examples: examples alone is left.
C8_Witness ==
    /\ Succeeded
    /\ DocIdx = {}
    /\ settings = "extra"
    /\ InitHeap["extra.components"].schemas = {}
    /\ res.body.components = [examples |-> {"Pet"}]
    /\ res.body.paths = EmptyObj

(***************************************************************************)
(* C9.  N(p) = stripTerminalSlash(ensureLeadingSlash(p)) is idempotent:    *)
(* N(N(p)) = N(p) for every string p.                                      *)
(***************************************************************************)
C9_NormalizeIdempotent == pathPc = "twice" => nnp = np

(***************************************************************************)
(* C9, amended.  N(N(p)) = N(p) exactly for the strings p that do not end  *)
(* in two or more '/', and for p = "//"; N strips one trailing '/' per     *)
(* application, so for the other strings N(N(p)) is N(p) less its trailing *)
(* '/'.                                                                    *)
(***************************************************************************)
C9_NormalizeIdempotentUnlessTwoSlashes ==
    pathPc = "twice" =>
        /\ (nnp = np) <=> (~EndsWithTwoSlashes(p) \/ p = <<"/", "/">>)
        /\ nnp # np => (np = nnp \o <<"/">>)

\* A string without leading '/' and with one trailing '/', normalised twice.
C9_Witness ==
    /\ pathPc = "twice"
    /\ p = <<"a", "/">>
    /\ np = <<"/", "a">>
    /\ nnp = np

(***************************************************************************)
(* C10.  A request leaves its inputs as they were: the default template    *)
(* with its components and servers, and the template and global            *)
(* parameters of the settings, are equal to their values before it.        *)
(***************************************************************************)
C10_InputsUnchanged == heap = InitHeap


====
